---- MODULE Spec2Model ----
(***************************************************************************)
(* Model of the Chronology console game (src/Test_Chrono_Game_Felix.py):   *)
(* choose_next_song, is_correct_insertion, ask_position,                   *)
(* next_player_alive, play_single and play_two.                            *)
(*                                                                         *)
(* A Song is a record [track_id, year]; the other fields of the dataclass  *)
(* are display-only.  Optional[X] is a sequence of length <= 1: None is    *)
(* << >> and a value x is << x >>.  Python list indices are 0-based, TLA+  *)
(* sequences are 1-based: list element k is sequence element k + 1.        *)
(***************************************************************************)
EXTENDS Integers, Sequences, FiniteSets, TLC

VARIABLES
    mode,               \* "single" (play_single), "two" (play_two), "fn" (function harness)
    song_pool,          \* the catalog handed to play_single / play_two
    timeline,           \* list of Song
    used_ids,           \* set of track_id
    used_years,         \* set of year
    lives,              \* player index -> lives (single player: index 0 only)
    scores,             \* player index -> score
    current,            \* index of the player to move (play_two)
    cand,               \* Optional[Song]: result of the last choose_next_song
    allowed_positions,  \* ask_position's list of offered insert indices
    tokens,             \* ask_position's rendered one-line prompt
    choice,             \* ask_position: the last line read by input()
    attempts,           \* ask_position: rejected inputs in the current call
    idx,                \* Optional[int]: value returned by ask_position, until consumed
    correct,            \* result of is_correct_insertion in the round just resolved
    pc,                 \* "draw", "ask", "returned", "end", "fn", "fn_done"
    outcome,            \* how the session ended: "none", "deck", "out", "cancel"
    winner              \* play_two's final report: "none", "p0", "p1", "tie"

vars == << mode, song_pool, timeline, used_ids, used_years, lives, scores,
           current, cand, allowed_positions, tokens, choice, attempts, idx,
           correct, pc, outcome, winner >>

-----------------------------------------------------------------------------
(* Bounds *)

NumSongs == 8       \* entries of the long catalog
MaxAttempts == 2    \* rejected inputs followed within one ask_position call
MaxLen == 3         \* longest timeline handed to the function harness
LiveSongs == 5      \* entries of the long catalog of the fair sessions

-----------------------------------------------------------------------------
(* Program constants *)

MAX_LIVES == 3

None == << >>
Some(x) == << x >>

Song(i, y) == [track_id |-> i, year |-> y]

Range(s) == { s[k] : k \in 1..Len(s) }

YearsOf(seq) == [ k \in 1..Len(seq) |-> seq[k].year ]

Min(a, b) == IF a <= b THEN a ELSE b

-----------------------------------------------------------------------------
(* Catalogs: what load_songs can hand to a session.  load_songs drops      *)
(* duplicate (track_id, year) pairs only, so a catalog may repeat a year   *)
(* under different ids and an id under different years.                    *)

LongYear(k) == 1990 + k + (k \div 2)

CatalogOne == { Song(1, 2000) }

CatalogB == { Song(1, 1990), Song(2, 2000), Song(3, 1995) }

CatalogDup == { Song(1, 1990), Song(2, 1991), Song(3, 1991), Song(1, 1994),
                Song(4, 1994) }

CatalogLong == { Song(k, LongYear(k)) : k \in 1..NumSongs }

CatalogSameYear == { Song(1, 2000), Song(2, 2000) }

CatalogLive == { Song(k, LongYear(k)) : k \in 1..LiveSongs }

LiveCatalogs == { CatalogSameYear, CatalogB, CatalogDup, CatalogLive }

Catalogs == { CatalogOne, CatalogSameYear, CatalogB, CatalogDup, CatalogLong }

FnSongs == { Song(1, 1990), Song(2, 1991), Song(3, 1995), Song(4, 1993),
             Song(5, 1995) }

-----------------------------------------------------------------------------
(* sorted(..., key=lambda s: s.year): a stable sort by year.  Element j  *)
(* goes behind every element of a smaller year and every earlier element  *)
(* of the same year.                                                      *)

KeepOrder(seq) == seq

SortByYear(seq) ==
    LET n == Len(seq)
        Rank(j) == 1 + Cardinality({ i \in 1..n :
                          \/ seq[i].year < seq[j].year
                          \/ seq[i].year = seq[j].year /\ i < j })
    IN  IF n = 0 THEN << >>
        ELSE [ k \in 1..n |-> seq[CHOOSE j \in 1..n : Rank(j) = k] ]

(* sorted(years) on a list of integers *)

SortInts(seq) ==
    LET n == Len(seq)
        Rank(j) == 1 + Cardinality({ i \in 1..n :
                          \/ seq[i] < seq[j]
                          \/ seq[i] = seq[j] /\ i < j })
    IN  IF n = 0 THEN << >>
        ELSE [ k \in 1..n |-> seq[CHOOSE j \in 1..n : Rank(j) = k] ]

-----------------------------------------------------------------------------
(* choose_next_song: the set of values random.choice may return *)

choose_next_song_ignoring_years(pool, ids, years) ==
    LET candidates == { s \in pool : s.track_id \notin ids }
    IN  IF candidates = {} THEN { None } ELSE { Some(s) : s \in candidates }

choose_next_song(pool, ids, years) ==
    LET candidates == { s \in pool : s.track_id \notin ids /\ s.year \notin years }
    IN  IF candidates = {} THEN { None } ELSE { Some(s) : s \in candidates }

-----------------------------------------------------------------------------
(* is_correct_insertion *)

Tentative(tl, new_song, insert_idx) ==
    LET tl_sorted == SortByYear(tl)
        k == Min(insert_idx, Len(tl_sorted))
    IN  SubSeq(tl_sorted, 1, k) \o << new_song >>
            \o SubSeq(tl_sorted, k + 1, Len(tl_sorted))

is_correct_insertion_without_set_check(tl, new_song, insert_idx) ==
    \E years \in { YearsOf(Tentative(tl, new_song, insert_idx)) } :
        years = SortInts(years)

is_correct_insertion(tl, new_song, insert_idx) ==
    \E years \in { YearsOf(Tentative(tl, new_song, insert_idx)) } :
        years = SortInts(years) /\ Len(years) = Cardinality(Range(years))

-----------------------------------------------------------------------------
(* ask_position: the offered insert positions *)

HasGapOfAnySize(left, right) == right.year - left.year > 0

HasGapSwapped(left, right) == left.year - right.year > 1

HasGap(left, right) == right.year - left.year > 1

RECURSIVE GapPositions(_, _)
GapPositions(tl, n) ==
    IF n <= 0 THEN << >>
    ELSE GapPositions(tl, n - 1)
            \o (IF HasGap(tl[n], tl[n + 1]) THEN << n >> ELSE << >>)

AllowedPositions(tline) ==
    LET tl == SortByYear(tline)
    IN  << 0 >> \o GapPositions(tl, Len(tl) - 1) \o << Len(tl) >>

(* ask_position: the one-line prompt.  A token is "Option k", "<" or a    *)
(* year in brackets.                                                      *)

OptionToken(k) == [kind |-> "option", n |-> k]

LtToken == [kind |-> "lt", n |-> 0]

YearToken(y) == [kind |-> "year", n |-> y]

ShowsOptionAfterAnyGap(tl, k) ==
    k < Len(tl) /\ tl[k + 1].year - tl[k].year > 0

ShowsOptionAfter(tl, k) ==
    k < Len(tl) /\ tl[k + 1].year - tl[k].year > 1

(* one pass of the render loop, for the n-th entry of the sorted timeline *)
RenderStep(prev, tl, n) ==
    IF ShowsOptionAfter(tl, n)
    THEN [tokens |-> prev.tokens
                        \o << LtToken, YearToken(tl[n].year) >>
                        \o << LtToken, OptionToken(prev.opt_num + 1) >>,
          opt_num |-> prev.opt_num + 1]
    ELSE [tokens |-> prev.tokens \o << LtToken, YearToken(tl[n].year) >>,
          opt_num |-> prev.opt_num]

(* tokens and opt_num after the loop has handled the first n entries *)
RECURSIVE RenderUpTo(_, _)
RenderUpTo(tl, n) ==
    IF n <= 0 THEN [tokens |-> << OptionToken(1) >>, opt_num |-> 1]
    ELSE CHOOSE r \in { RenderStep(prev, tl, n) :
                            prev \in { RenderUpTo(tl, n - 1) } } : TRUE

(* the trailing option after the last year *)
RenderTrailing(r) == r.tokens \o << LtToken, OptionToken(r.opt_num + 1) >>

RenderTokens(tline) ==
    CHOOSE t \in { RenderTrailing(RenderUpTo(tl, Len(tl))) :
                      tl \in { SortByYear(tline) } } : TRUE

(* ask_position: the lines input() may deliver, and their parsing *)

ExitInputs == { "exit", " EXIT " }

TextInputs == { "abc", "" }

NumeralInputs == { "-1", "0", "1", " 2 ", "3", "4", "5", "6", "7" }

Inputs == ExitInputs \cup TextInputs \cup NumeralInputs

(* choice.strip().lower() *)
StripLower(s) ==
    CASE s = " EXIT " -> "exit"
      [] s = " 2 " -> "2"
      [] OTHER -> s

(* int(choice): << >> stands for ValueError *)
NumeralValue ==
    ("-1" :> (0 - 1)) @@ ("0" :> 0) @@ ("1" :> 1) @@ ("2" :> 2) @@ ("3" :> 3)
        @@ ("4" :> 4) @@ ("5" :> 5) @@ ("6" :> 6) @@ ("7" :> 7)

ParseInt(s) ==
    IF s \in DOMAIN NumeralValue THEN Some(NumeralValue[s]) ELSE None

AskOutcomeUnmapped(line, allowed) ==
    LET c == StripLower(line)
        val == ParseInt(c)
    IN  IF c = "exit" THEN [kind |-> "return", value |-> None]
        ELSE IF val # None /\ 1 <= val[1] /\ val[1] <= Len(allowed)
             THEN [kind |-> "return", value |-> Some(val[1] - 1)]
             ELSE [kind |-> "retry", value |-> None]

AskOutcomeClamping(line, allowed) ==
    LET c == StripLower(line)
        val == ParseInt(c)
    IN  IF c = "exit" THEN [kind |-> "return", value |-> None]
        ELSE IF val # None /\ 1 <= val[1] /\ val[1] <= Len(allowed)
             THEN [kind |-> "return", value |-> Some(allowed[val[1]])]
             ELSE [kind |-> "return", value |-> Some(0)]

AskOutcome(line, allowed) ==
    LET c == StripLower(line)
        val == ParseInt(c)
    IN  IF c = "exit" THEN [kind |-> "return", value |-> None]
        ELSE IF val # None /\ 1 <= val[1] /\ val[1] <= Len(allowed)
             THEN [kind |-> "return", value |-> Some(allowed[val[1]])]
             ELSE [kind |-> "retry", value |-> None]

-----------------------------------------------------------------------------
(* next_player_alive and the both-players-out test of play_two *)

next_player_alive_inverted(current_idx, lvs) ==
    LET other == 1 - current_idx
    IN  IF lvs[other] > 0 THEN current_idx ELSE other

next_player_alive(current_idx, lvs) ==
    LET other == 1 - current_idx
    IN  IF lvs[other] > 0 THEN other ELSE current_idx

(* play_single: the game-over test after a round *)

NegativeLives(n) == n < 0

OutOfLives(n) == n <= 0

(* play_two: the final report *)

WinnerWithLivesTieBreak(scs, lvs) ==
    IF scs[0] > scs[1] THEN "p0"
    ELSE IF scs[1] > scs[0] THEN "p1"
    ELSE IF lvs[0] > lvs[1] THEN "p0"
    ELSE IF lvs[1] > lvs[0] THEN "p1"
    ELSE "tie"

Winner(scs, lvs) ==
    IF scs[0] > scs[1] THEN "p0"
    ELSE IF scs[1] > scs[0] THEN "p1"
    ELSE "tie"

EitherOut(lvs) == lvs[0] <= 0 \/ lvs[1] <= 0

BothOut(lvs) == lvs[0] <= 0 /\ lvs[1] <= 0

-----------------------------------------------------------------------------
(* Session start: play_single / play_two up to the first loop iteration *)

Players(m) == IF m = "two" THEN 0..1 ELSE 0..0

InitWithoutSeedMarked ==
    /\ mode \in { "single", "two" }
    /\ song_pool \in Catalogs
    /\ \E starter \in song_pool :
          /\ timeline = << starter >>
          /\ used_ids = {}
          /\ used_years = {}
    /\ lives = [ p \in Players(mode) |-> MAX_LIVES ]
    /\ scores = [ p \in Players(mode) |-> 0 ]
    /\ current = 0
    /\ cand = None
    /\ allowed_positions = << >>
    /\ tokens = << >>
    /\ choice = ""
    /\ attempts = 0
    /\ idx = None
    /\ correct = FALSE
    /\ pc = "draw"
    /\ outcome = "none"
    /\ winner = "none"

Init ==
    /\ mode \in { "single", "two" }
    /\ song_pool \in Catalogs
    /\ \E starter \in song_pool :
          /\ timeline = << starter >>
          /\ used_ids = { starter.track_id }
          /\ used_years = { starter.year }
    /\ lives = [ p \in Players(mode) |-> MAX_LIVES ]
    /\ scores = [ p \in Players(mode) |-> 0 ]
    /\ current = 0
    /\ cand = None
    /\ allowed_positions = << >>
    /\ tokens = << >>
    /\ choice = ""
    /\ attempts = 0
    /\ idx = None
    /\ correct = FALSE
    /\ pc = "draw"
    /\ outcome = "none"
    /\ winner = "none"

-----------------------------------------------------------------------------
(* ask_position: one input() line, either returned on or rejected.        *)
(* allowed_positions, choice and attempts are locals of ask_position:     *)
(* they are set when the call starts and cleared by the caller's next     *)
(* step, once the value returned has been consumed.                       *)

AskReturn ==
    /\ pc = "ask"
    /\ \E line \in Inputs :
          LET r == AskOutcome(line, allowed_positions)
          IN  /\ r.kind = "return"
              /\ choice' = line
              /\ idx' = r.value
    /\ pc' = "returned"
    /\ UNCHANGED << mode, song_pool, timeline, used_ids, used_years, lives,
                    scores, current, cand, allowed_positions, tokens, attempts,
                    correct, outcome, winner >>

AskRetry ==
    /\ pc = "ask"
    /\ attempts < MaxAttempts
    /\ \E line \in Inputs :
          LET r == AskOutcome(line, allowed_positions)
          IN  /\ r.kind = "retry"
              /\ choice' = line
    /\ attempts' = attempts + 1
    /\ UNCHANGED << mode, song_pool, timeline, used_ids, used_years, lives,
                    scores, current, cand, allowed_positions, tokens, idx, correct,
                    pc, outcome, winner >>

-----------------------------------------------------------------------------
(* play_single *)

SingleDraw ==
    /\ mode = "single"
    /\ pc = "draw"
    /\ \E c \in choose_next_song(song_pool, used_ids, used_years) :
          /\ cand' = c
          /\ IF c = None
             THEN /\ pc' = "end"
                  /\ outcome' = "deck"
                  /\ UNCHANGED << allowed_positions, tokens, attempts >>
             ELSE /\ pc' = "ask"
                  /\ allowed_positions' = AllowedPositions(timeline)
                  /\ tokens' = RenderTokens(timeline)
                  /\ attempts' = 0
                  /\ UNCHANGED outcome
    /\ correct' = FALSE
    /\ UNCHANGED << mode, song_pool, timeline, used_ids, used_years, lives,
                    scores, current, choice, idx >>
    /\ UNCHANGED winner

SingleCancelCommitting ==
    /\ mode = "single"
    /\ pc = "returned"
    /\ idx = None
    /\ pc' = "end"
    /\ outcome' = "cancel"
    /\ lives' = [ lives EXCEPT ![0] = @ - 1 ]
    /\ timeline' = SortByYear(Append(timeline, cand[1]))
    /\ used_ids' = used_ids \cup { cand[1].track_id }
    /\ used_years' = used_years \cup { cand[1].year }
    /\ allowed_positions' = << >>
    /\ tokens' = << >>
    /\ choice' = ""
    /\ attempts' = 0
    /\ UNCHANGED << mode, song_pool, scores, current, cand, idx, correct >>
    /\ UNCHANGED winner

SingleCancel ==
    /\ mode = "single"
    /\ pc = "returned"
    /\ idx = None
    /\ pc' = "end"
    /\ outcome' = "cancel"
    /\ allowed_positions' = << >>
    /\ tokens' = << >>
    /\ choice' = ""
    /\ attempts' = 0
    /\ UNCHANGED << mode, song_pool, timeline, used_ids, used_years, lives,
                    scores, current, cand, idx, correct >>
    /\ UNCHANGED winner

SingleResolveDroppingWrongGuess ==
    /\ mode = "single"
    /\ pc = "returned"
    /\ idx # None
    /\ correct' = is_correct_insertion(timeline, cand[1], idx[1])
    /\ IF correct'
       THEN /\ scores' = [ scores EXCEPT ![0] = @ + 1 ]
            /\ UNCHANGED lives
       ELSE /\ lives' = [ lives EXCEPT ![0] = @ - 1 ]
            /\ UNCHANGED scores
    /\ timeline' = IF correct' THEN SortByYear(Append(timeline, cand[1]))
                              ELSE timeline
    /\ used_ids' = used_ids \cup { cand[1].track_id }
    /\ used_years' = used_years \cup { cand[1].year }
    /\ IF OutOfLives(lives'[0])
       THEN pc' = "end" /\ outcome' = "out"
       ELSE pc' = "draw" /\ UNCHANGED outcome
    /\ allowed_positions' = << >>
    /\ tokens' = << >>
    /\ choice' = ""
    /\ attempts' = 0
    /\ idx' = None
    /\ UNCHANGED << mode, song_pool, current, cand >>
    /\ UNCHANGED winner

SingleResolve ==
    /\ mode = "single"
    /\ pc = "returned"
    /\ idx # None
    /\ correct' = is_correct_insertion(timeline, cand[1], idx[1])
    /\ IF correct'
       THEN /\ scores' = [ scores EXCEPT ![0] = @ + 1 ]
            /\ UNCHANGED lives
       ELSE /\ lives' = [ lives EXCEPT ![0] = @ - 1 ]
            /\ UNCHANGED scores
    /\ timeline' = SortByYear(Append(timeline, cand[1]))
    /\ used_ids' = used_ids \cup { cand[1].track_id }
    /\ used_years' = used_years \cup { cand[1].year }
    /\ IF OutOfLives(lives'[0])
       THEN pc' = "end" /\ outcome' = "out"
       ELSE pc' = "draw" /\ UNCHANGED outcome
    /\ allowed_positions' = << >>
    /\ tokens' = << >>
    /\ choice' = ""
    /\ attempts' = 0
    /\ idx' = None
    /\ UNCHANGED << mode, song_pool, current, cand >>
    /\ UNCHANGED winner

-----------------------------------------------------------------------------
(* play_two *)

TwoDraw ==
    /\ mode = "two"
    /\ pc = "draw"
    /\ \E c \in choose_next_song(song_pool, used_ids, used_years) :
          /\ cand' = c
          /\ IF c = None
             THEN /\ pc' = "end"
                  /\ outcome' = "deck"
                  /\ UNCHANGED << current, allowed_positions, tokens, attempts >>
             ELSE /\ current' = IF lives[current] <= 0
                                THEN next_player_alive(current, lives)
                                ELSE current
                  /\ IF BothOut(lives)
                     THEN /\ pc' = "end"
                          /\ outcome' = "out"
                          /\ UNCHANGED << allowed_positions, tokens, attempts >>
                     ELSE /\ pc' = "ask"
                          /\ allowed_positions' = AllowedPositions(timeline)
                          /\ tokens' = RenderTokens(timeline)
                          /\ attempts' = 0
                          /\ UNCHANGED outcome
    /\ correct' = FALSE
    /\ UNCHANGED << mode, song_pool, timeline, used_ids, used_years, lives,
                    scores, choice, idx >>
    /\ winner' = IF pc' = "end" THEN Winner(scores, lives) ELSE winner

TwoCancel ==
    /\ mode = "two"
    /\ pc = "returned"
    /\ idx = None
    /\ pc' = "end"
    /\ outcome' = "cancel"
    /\ allowed_positions' = << >>
    /\ tokens' = << >>
    /\ choice' = ""
    /\ attempts' = 0
    /\ UNCHANGED << mode, song_pool, timeline, used_ids, used_years, lives,
                    scores, current, cand, idx, correct >>
    /\ UNCHANGED winner

TwoResolveChargingOther ==
    /\ mode = "two"
    /\ pc = "returned"
    /\ idx # None
    /\ correct' = is_correct_insertion(timeline, cand[1], idx[1])
    /\ IF correct'
       THEN /\ scores' = [ scores EXCEPT ![current] = @ + 1 ]
            /\ UNCHANGED lives
       ELSE /\ lives' = [ lives EXCEPT ![1 - current] = @ - 1 ]
            /\ UNCHANGED scores
    /\ timeline' = SortByYear(Append(timeline, cand[1]))
    /\ used_ids' = used_ids \cup { cand[1].track_id }
    /\ used_years' = used_years \cup { cand[1].year }
    /\ IF BothOut(lives')
       THEN /\ pc' = "end"
            /\ outcome' = "out"
            /\ UNCHANGED current
       ELSE /\ pc' = "draw"
            /\ current' = next_player_alive(current, lives')
            /\ UNCHANGED outcome
    /\ allowed_positions' = << >>
    /\ tokens' = << >>
    /\ choice' = ""
    /\ attempts' = 0
    /\ idx' = None
    /\ UNCHANGED << mode, song_pool, cand >>
    /\ winner' = IF pc' = "end" THEN Winner(scores', lives') ELSE winner

TwoResolve ==
    /\ mode = "two"
    /\ pc = "returned"
    /\ idx # None
    /\ correct' = is_correct_insertion(timeline, cand[1], idx[1])
    /\ IF correct'
       THEN /\ scores' = [ scores EXCEPT ![current] = @ + 1 ]
            /\ UNCHANGED lives
       ELSE /\ lives' = [ lives EXCEPT ![current] = @ - 1 ]
            /\ UNCHANGED scores
    /\ timeline' = SortByYear(Append(timeline, cand[1]))
    /\ used_ids' = used_ids \cup { cand[1].track_id }
    /\ used_years' = used_years \cup { cand[1].year }
    /\ IF BothOut(lives')
       THEN /\ pc' = "end"
            /\ outcome' = "out"
            /\ UNCHANGED current
       ELSE /\ pc' = "draw"
            /\ current' = next_player_alive(current, lives')
            /\ UNCHANGED outcome
    /\ allowed_positions' = << >>
    /\ tokens' = << >>
    /\ choice' = ""
    /\ attempts' = 0
    /\ idx' = None
    /\ UNCHANGED << mode, song_pool, cand >>
    /\ winner' = IF pc' = "end" THEN Winner(scores', lives') ELSE winner

-----------------------------------------------------------------------------

Next ==
    \/ AskReturn
    \/ AskRetry
    \/ SingleDraw
    \/ SingleCancel
    \/ SingleResolve
    \/ TwoDraw
    \/ TwoCancel
    \/ TwoResolve

Spec == Init /\ [][Next]_vars

(* The session as a running program: its own steps are always taken, and  *)
(* every placement prompt is eventually answered with a line that         *)
(* ask_position returns on (an offered choice or EXIT).                   *)
ProgramSteps ==
    \/ SingleDraw
    \/ SingleCancel
    \/ SingleResolve
    \/ TwoDraw
    \/ TwoCancel
    \/ TwoResolve

InitLive ==
    /\ mode \in { "single", "two" }
    /\ song_pool \in LiveCatalogs
    /\ \E starter \in song_pool :
          /\ timeline = << starter >>
          /\ used_ids = { starter.track_id }
          /\ used_years = { starter.year }
    /\ lives = [ p \in Players(mode) |-> MAX_LIVES ]
    /\ scores = [ p \in Players(mode) |-> 0 ]
    /\ current = 0
    /\ cand = None
    /\ allowed_positions = << >>
    /\ tokens = << >>
    /\ choice = ""
    /\ attempts = 0
    /\ idx = None
    /\ correct = FALSE
    /\ pc = "draw"
    /\ outcome = "none"
    /\ winner = "none"

SpecLive ==
    /\ InitLive
    /\ [][Next]_vars
    /\ WF_vars(ProgramSteps)
    /\ WF_vars(AskReturn)

-----------------------------------------------------------------------------
(* Function harness: is_correct_insertion and the offered positions of     *)
(* ask_position applied to arbitrary timelines, candidates and indices.    *)

FnTimelines == UNION { [ 1..n -> FnSongs ] : n \in 0..MaxLen }

InitFn ==
    /\ mode = "fn"
    /\ song_pool = FnSongs
    /\ timeline \in FnTimelines
    /\ \E c \in FnSongs : cand = Some(c)
    /\ \E i \in 0..MaxLen : i <= Len(timeline) /\ idx = Some(i)
    /\ used_ids = {}
    /\ used_years = {}
    /\ lives = [ p \in 0..0 |-> MAX_LIVES ]
    /\ scores = [ p \in 0..0 |-> 0 ]
    /\ current = 0
    /\ allowed_positions = << >>
    /\ tokens = << >>
    /\ choice = ""
    /\ attempts = 0
    /\ correct = FALSE
    /\ pc = "fn"
    /\ outcome = "none"
    /\ winner = "none"

FnJudge ==
    /\ pc = "fn"
    /\ correct' = is_correct_insertion(timeline, cand[1], idx[1])
    /\ pc' = "fn_judged"
    /\ UNCHANGED << mode, song_pool, timeline, used_ids, used_years, lives,
                    scores, current, cand, allowed_positions, tokens, choice,
                    attempts, idx, outcome, winner >>

FnOffer ==
    /\ pc = "fn"
    /\ allowed_positions' = AllowedPositions(timeline)
    /\ tokens' = RenderTokens(timeline)
    /\ pc' = "fn_offered"
    /\ UNCHANGED << mode, song_pool, timeline, used_ids, used_years, lives,
                    scores, current, cand, choice, attempts, idx, correct,
                    outcome, winner >>

NextFn ==
    \/ FnJudge
    \/ FnOffer

SpecFn == InitFn /\ [][NextFn]_vars

-----------------------------------------------------------------------------
(* Properties *)

StrictlyIncreasing(ints) == \A k \in 1..(Len(ints) - 1) : ints[k] < ints[k + 1]

Drawable == { s \in song_pool : s.track_id \notin used_ids
                                  /\ s.year \notin used_years }

Prompting == pc \in { "ask", "returned" }

(* C1: in every state of a single-player or two-player session the        *)
(* timeline sorted by year has strictly increasing years, so no two       *)
(* entries on the timeline share a year.                                  *)
C1_TimelineStrictlyIncreasing ==
    mode \in { "single", "two" } =>
        /\ StrictlyIncreasing(YearsOf(SortByYear(timeline)))
        /\ Cardinality(Range(YearsOf(timeline))) = Len(timeline)

C1_Witness ==
    /\ song_pool = CatalogDup
    /\ Len(timeline) >= 3
    /\ lives[0] < MAX_LIVES
    /\ scores[0] > 0

(* C2: a draw never yields an entry whose track_id is in used_ids or      *)
(* whose year is in used_years, it yields None exactly when the catalog   *)
(* has no entry with both an unused id and an unused year, and the entry  *)
(* drawn and its year are not already on the timeline.                    *)
C2_DrawIsFresh ==
    [][ pc = "draw" =>
          /\ (cand' = None) <=> (Drawable = {})
          /\ cand' # None =>
                /\ cand'[1] \in song_pool
                /\ cand'[1].track_id \notin used_ids
                /\ cand'[1].year \notin used_years
                /\ cand'[1] \notin Range(timeline)
                /\ cand'[1].year \notin Range(YearsOf(timeline)) ]_vars

C2_Witness ==
    /\ pc = "ask"
    /\ cand # None
    /\ \E s \in song_pool : s.track_id \notin used_ids /\ s.year \in used_years
    /\ \E s \in song_pool : s.track_id \in used_ids /\ s.year \notin used_years

(* C3: is_correct_insertion(T, c, i) is true exactly when splicing c at   *)
(* position i of the year-sorted T gives strictly increasing years; with  *)
(* seed 1990 and candidate 1995 index 1 is valid and index 0 is not.      *)
SplicedYears(tl, c, i) ==
    LET s == SortByYear(tl)
    IN  [ k \in 1..(Len(s) + 1) |->
            IF k <= i THEN s[k].year
            ELSE IF k = i + 1 THEN c.year
            ELSE s[k - 1].year ]

C3_InsertionIffStrictlyIncreasing ==
    pc = "fn_judged" =>
        /\ correct <=> StrictlyIncreasing(SplicedYears(timeline, cand[1], idx[1]))
        /\ (timeline = << Song(1, 1990) >> /\ cand = Some(Song(3, 1995)))
              => (correct <=> idx = Some(1))

C3_Witness ==
    /\ pc = "fn_judged"
    /\ timeline = << Song(1, 1990) >>
    /\ cand = Some(Song(3, 1995))
    /\ idx = Some(1)
    /\ correct

(* C4: each player's lives stay within 0..MAX_LIVES and never increase,   *)
(* each player's score never decreases, and lives that have reached 0     *)
(* never change again.                                                    *)
C4_LivesAndScoreMonotone ==
    /\ [](\A p \in DOMAIN lives : lives[p] \in 0..MAX_LIVES /\ scores[p] >= 0)
    /\ [][ \A p \in DOMAIN lives :
              /\ lives'[p] <= lives[p]
              /\ scores'[p] >= scores[p]
              /\ lives[p] = 0 => lives'[p] = 0 ]_vars

C4_Witness ==
    /\ mode = "two"
    /\ pc = "draw"
    /\ lives[0] = 0
    /\ lives[1] \in 1..(MAX_LIVES - 1)
    /\ scores[1] > 0
    /\ Len(timeline) >= 7

(* C5: in a two-player session the player at a placement prompt has       *)
(* lives > 0, and when one player is eliminated and the other is active   *)
(* the prompt goes to the active player.                                  *)
C5_TurnGoesToActivePlayer ==
    (mode = "two" /\ Prompting) =>
        /\ lives[current] > 0
        /\ \A p \in 0..1 : (lives[p] <= 0 /\ lives[1 - p] > 0) => current = 1 - p

C5_Witness ==
    /\ mode = "two"
    /\ pc = "ask"
    /\ lives[0] = 0
    /\ current = 1
    /\ Len(timeline) >= 7

(* C6: a session that was not cancelled has ended only if all of its      *)
(* players are eliminated or no drawable entry remains.                   *)
C6_EndOnlyWhenAllOutOrDeckExhausted ==
    (pc = "end" /\ outcome # "cancel") =>
        \/ \A p \in DOMAIN lives : lives[p] <= 0
        \/ Drawable = {}

C6_Witness ==
    /\ mode = "two"
    /\ pc = "end"
    /\ outcome = "out"
    /\ lives[0] = 0
    /\ lives[1] = 0
    /\ Drawable # {}

(* C7: for a timeline whose sorted years are strictly increasing the      *)
(* offered positions are exactly 0, len(timeline) and every interior      *)
(* index i+1 with year[i+1] - year[i] > 1; a position between two years   *)
(* that differ by exactly 1 is never offered.                             *)
C7_OfferedPositions ==
    (pc = "fn_offered" /\ StrictlyIncreasing(YearsOf(SortByYear(timeline)))) =>
        LET s == SortByYear(timeline)
            n == Len(s)
        IN  /\ Range(allowed_positions) =
                  { 0, n } \cup { i + 1 : i \in { j \in 0..(n - 2) :
                                        s[j + 2].year - s[j + 1].year > 1 } }
            /\ \A k \in 1..(n - 1) :
                  s[k + 1].year - s[k].year = 1 => k \notin Range(allowed_positions)

C7_Witness ==
    /\ pc = "fn_offered"
    /\ timeline = << Song(4, 1993), Song(1, 1990), Song(2, 1991) >>
    /\ allowed_positions = << 0, 2, 3 >>

(* C8: EXIT at a placement prompt makes ask_position return None and the  *)
(* session end as cancelled; neither the draw, the EXIT nor the abort     *)
(* changes the timeline, the used ids, the used years, lives or scores,   *)
(* and an ended session takes no further step.                            *)
C8_CancelHasNoSideEffects ==
    [][ /\ pc = "draw" =>
              UNCHANGED << timeline, used_ids, used_years, lives, scores >>
        /\ (pc = "ask" /\ StripLower(choice') = "exit") =>
              /\ pc' = "returned"
              /\ idx' = None
              /\ UNCHANGED << timeline, used_ids, used_years, lives, scores >>
        /\ (pc = "returned" /\ idx = None) =>
              /\ pc' = "end"
              /\ outcome' = "cancel"
              /\ UNCHANGED << timeline, used_ids, used_years, lives, scores >>
        /\ pc = "end" => UNCHANGED vars ]_vars

C8_Witness ==
    /\ pc = "end"
    /\ outcome = "cancel"
    /\ idx = None
    /\ Len(timeline) >= 2

(* C9: a choice that is not numeric, below 1 or above the number of       *)
(* offered positions is rejected: the prompt stays on the same candidate  *)
(* and timeline, used sets, lives, scores and current player are          *)
(* unchanged, also after several invalid choices in a row.                *)
InvalidChoice(line, n) ==
    \/ line \in TextInputs
    \/ /\ line \in NumeralInputs
       /\ \/ NumeralValue[StripLower(line)] < 1
          \/ NumeralValue[StripLower(line)] > n

C9_InvalidChoiceReprompts ==
    [][ (pc = "ask" /\ InvalidChoice(choice', Len(allowed_positions))) =>
            /\ pc' = "ask"
            /\ UNCHANGED << timeline, used_ids, used_years, lives, scores,
                            current, cand, allowed_positions, outcome >> ]_vars

C9_Witness ==
    /\ pc = "ask"
    /\ attempts >= 2
    /\ InvalidChoice(choice, Len(allowed_positions))
    /\ Len(timeline) >= 2

(* C10: ask_position returns either None or one of the offered allowed    *)
(* positions, which lies within 0..len(timeline).                         *)
C10_ReturnsOfferedPosition ==
    pc = "returned" =>
        \/ idx = None
        \/ /\ idx[1] \in Range(allowed_positions)
           /\ idx[1] \in 0..Len(timeline)
           /\ \E v \in 1..Len(allowed_positions) :
                 /\ ParseInt(StripLower(choice)) = Some(v)
                 /\ idx[1] = AllowedPositions(timeline)[v]

C10_Witness ==
    /\ pc = "returned"
    /\ idx # None
    /\ Len(allowed_positions) < Len(timeline) + 1
    /\ idx[1] = Len(timeline)

(* C11: when a two-player session concludes by deck exhaustion or with    *)
(* both players eliminated, player 0 is reported winner iff               *)
(* scores[0] > scores[1], player 1 iff scores[1] > scores[0], and equal   *)
(* scores are a tie whatever the remaining lives.                         *)
C11_WinnerByScoreOnly ==
    (mode = "two" /\ pc = "end" /\ outcome \in { "deck", "out" }) =>
        /\ winner = "p0" <=> scores[0] > scores[1]
        /\ winner = "p1" <=> scores[1] > scores[0]
        /\ winner = "tie" <=> scores[0] = scores[1]

C11_Witness ==
    /\ mode = "two"
    /\ pc = "end"
    /\ outcome = "deck"
    /\ winner = "tie"
    /\ scores[0] = scores[1]
    /\ lives[0] = 0
    /\ lives[1] > 0

(* C12: a single-player session ends as "player eliminated" in the very   *)
(* step in which lives reach 0, with the score untouched by the wrong     *)
(* placement and also when that placement used the last drawable entry;   *)
(* it ends as "deck cleared" only on a draw of None with lives > 0.       *)
C12_SingleEndsWhenLivesReachZero ==
    /\ [](mode = "single" =>
            /\ lives[0] <= 0 <=> (pc = "end" /\ outcome = "out")
            /\ outcome = "deck" =>
                  (pc = "end" /\ cand = None /\ Drawable = {} /\ lives[0] > 0))
    /\ [][ (mode = "single" /\ lives[0] > 0 /\ lives'[0] <= 0) =>
              /\ pc = "returned"
              /\ lives[0] = 1
              /\ lives'[0] = 0
              /\ scores' = scores
              /\ cand' = cand
              /\ pc' = "end"
              /\ outcome' = "out" ]_vars

C12_Witness ==
    /\ mode = "single"
    /\ pc = "end"
    /\ outcome = "out"
    /\ lives[0] = 0
    /\ scores[0] > 0
    /\ Drawable = {}

(* C13: when every catalog entry has the seed's year the first draw       *)
(* returns None and the session ends as "deck cleared" without a prompt,  *)
(* with every score 0 and every player's lives still MAX_LIVES.           *)
OnlySeedYear == \A s \in song_pool : s.year = timeline[1].year

C13_OneYearCatalogClearsAtOnce ==
    /\ [](OnlySeedYear =>
            /\ pc \in { "draw", "end" }
            /\ pc = "end" => (outcome = "deck" /\ cand = None)
            /\ Len(timeline) = 1
            /\ \A p \in DOMAIN lives : lives[p] = MAX_LIVES /\ scores[p] = 0)
    /\ [][ (OnlySeedYear /\ pc = "draw") =>
              (pc' = "end" /\ outcome' = "deck" /\ cand' = None) ]_vars

C13_Witness ==
    /\ song_pool = CatalogSameYear
    /\ pc = "end"
    /\ outcome = "deck"
    /\ cand = None
    /\ scores[0] = 0
    /\ lives[0] = MAX_LIVES

(* C14: every resolved round, judged correct or wrong, puts the drawn     *)
(* candidate on the timeline at its chronological position whatever the   *)
(* guessed index, keeps all earlier entries in their order, adds its      *)
(* track_id to used_ids and its year to used_years; no step removes an    *)
(* entry from the timeline.                                               *)
Resolving == pc = "returned" /\ idx # None

TruePosition(tl, c) == Cardinality({ k \in 1..Len(tl) : tl[k].year < c.year })

C14_ResolvedRoundCommitsCandidate ==
    [][ /\ Resolving =>
              LET c == cand[1]
                  p == TruePosition(timeline, c)
              IN  /\ Len(timeline') = Len(timeline) + 1
                  /\ timeline'[p + 1] = c
                  /\ \A k \in 1..Len(timeline) :
                        timeline'[IF k <= p THEN k ELSE k + 1] = timeline[k]
                  /\ StrictlyIncreasing(YearsOf(timeline'))
                  /\ used_ids' = used_ids \cup { c.track_id }
                  /\ used_years' = used_years \cup { c.year }
        /\ ~Resolving => timeline' = timeline
        /\ Range(timeline) \subseteq Range(timeline') ]_vars

C14_Witness ==
    /\ pc = "draw"
    /\ ~correct
    /\ \E p \in DOMAIN lives : lives[p] < MAX_LIVES
    /\ Len(timeline) >= 3
    /\ cand = Some(timeline[2])

(* C15: a resolved round changes exactly one counter of the player who    *)
(* moved: a correct placement adds 1 to the mover's score and leaves the  *)
(* mover's lives, a wrong placement takes 1 from the mover's lives and    *)
(* leaves the mover's score; the other player's lives and score are       *)
(* unchanged, and no other step changes lives or scores.                  *)
C15_RoundChangesOneCounterOfMover ==
    [][ /\ Resolving =>
              LET m == IF mode = "two" THEN current ELSE 0
                  good == StrictlyIncreasing(
                              SplicedYears(timeline, cand[1], idx[1]))
              IN  /\ correct' = good
                  /\ good => (scores'[m] = scores[m] + 1 /\ lives'[m] = lives[m])
                  /\ ~good => (lives'[m] = lives[m] - 1 /\ scores'[m] = scores[m])
                  /\ \A p \in DOMAIN lives \ { m } :
                        lives'[p] = lives[p] /\ scores'[p] = scores[p]
        /\ ~Resolving => UNCHANGED << lives, scores >> ]_vars

C15_Witness ==
    /\ mode = "two"
    /\ pc = "draw"
    /\ Len(timeline) = 3
    /\ scores[0] = 1
    /\ lives[0] = MAX_LIVES
    /\ scores[1] = 0
    /\ lives[1] = MAX_LIVES - 1

(* C16: in a two-player session a resolved round that does not end the    *)
(* session passes the turn to the other player if that player has         *)
(* lives > 0 and otherwise leaves it with the mover, no other step moves  *)
(* the turn, and while both players are active the turns alternate        *)
(* starting with player 0.                                                *)
C16_TurnRotation ==
    /\ []((mode = "two" /\ lives[0] > 0 /\ lives[1] > 0) =>
              current = (Len(timeline) - 1) % 2)
    /\ [][ mode = "two" =>
              /\ (Resolving /\ pc' # "end") =>
                    current' = IF lives'[1 - current] > 0
                               THEN 1 - current ELSE current
              /\ ~Resolving => current' = current ]_vars

C16_Witness ==
    /\ mode = "two"
    /\ pc = "draw"
    /\ lives[0] = 0
    /\ lives[1] > 0
    /\ current = 1
    /\ Len(timeline) = 7

(* Lines 299-303 of play_two (advance past an eliminated mover, end when  *)
(* both players are out) run after the draw of line 294.  Every loop      *)
(* iteration of play_two starts with the mover alive, so neither test     *)
(* ever fires in a session.                                               *)
RoundStartFindsMoverActive ==
    (mode = "two" /\ pc = "draw") => (lives[current] > 0 /\ ~BothOut(lives))

(* C18: for every reachable timeline and every candidate choose_next_song *)
(* can return for it, exactly one insert index in 0..len(timeline) makes  *)
(* is_correct_insertion true and that index is among the positions        *)
(* ask_position offers.                                                   *)
CorrectIndices(tl, c) ==
    { i \in 0..Len(tl) : is_correct_insertion(tl, c, i) }

C18_CorrectIndexIsOffered ==
    /\ pc = "draw" =>
          \A c \in choose_next_song(song_pool, used_ids, used_years) \ { None } :
              /\ Cardinality(CorrectIndices(timeline, c[1])) = 1
              /\ CorrectIndices(timeline, c[1])
                    \subseteq Range(AllowedPositions(timeline))
    /\ pc = "ask" =>
          LET i == TruePosition(timeline, cand[1])
          IN  /\ is_correct_insertion(timeline, cand[1], i)
              /\ i \in Range(allowed_positions)
              /\ \E line \in Inputs :
                    AskOutcome(line, allowed_positions).value = Some(i)

C18_Witness ==
    /\ pc = "ask"
    /\ Len(allowed_positions) < Len(timeline) + 1
    /\ \E i \in 1..(Len(timeline) - 1) : is_correct_insertion(timeline, cand[1], i)

(* C19: in every state of a session used_ids is the set of track_ids on   *)
(* the timeline and used_years the set of years on the timeline, both     *)
(* starting as the seed's id and year.                                    *)
C19_UsedSetsMatchTimeline ==
    mode \in { "single", "two" } =>
        /\ used_ids = { timeline[k].track_id : k \in 1..Len(timeline) }
        /\ used_years = { timeline[k].year : k \in 1..Len(timeline) }
        /\ Cardinality(used_years) = Len(timeline)

C19_Witness ==
    /\ song_pool = CatalogDup
    /\ pc = "end"
    /\ outcome = "deck"
    /\ Len(timeline) = 3
    /\ Cardinality(used_ids) = 3

(* C20: in every state of a session the number of timeline entries minus  *)
(* 1 equals the sum of all scores plus the sum of all lost lives          *)
(* (MAX_LIVES - lives).                                                   *)
RECURSIVE SumOver(_, _)
SumOver(f, dom) ==
    IF dom = {} THEN 0
    ELSE LET p == CHOOSE q \in dom : TRUE
         IN  f[p] + SumOver(f, dom \ { p })

C20_RoundsAccountedFor ==
    mode \in { "single", "two" } =>
        Len(timeline) - 1 =
            SumOver(scores, DOMAIN scores)
                + SumOver([ p \in DOMAIN lives |-> MAX_LIVES - lives[p] ],
                          DOMAIN lives)

C20_Witness ==
    /\ mode = "two"
    /\ pc = "draw"
    /\ scores[0] >= 1
    /\ scores[1] >= 1
    /\ lives[0] < MAX_LIVES
    /\ lives[1] < MAX_LIVES
    /\ Len(timeline) >= 6

(* C21: every session terminates when each prompt is eventually answered  *)
(* with an offered choice or EXIT; the number of resolved rounds never    *)
(* exceeds the number of distinct years in the catalog minus 1, and in    *)
(* single-player never exceeds score + MAX_LIVES.                         *)
ResolvedRounds == Len(timeline) - 1

DistinctYears == Cardinality({ s.year : s \in song_pool })

C21_SessionTerminates ==
    /\ <>(pc = "end")
    /\ [](/\ ResolvedRounds <= DistinctYears - 1
          /\ mode = "single" => ResolvedRounds <= scores[0] + MAX_LIVES)

C21_Witness ==
    /\ mode = "single"
    /\ pc = "end"
    /\ outcome = "out"
    /\ song_pool = CatalogLive
    /\ ResolvedRounds = DistinctYears - 1
    /\ ResolvedRounds = scores[0] + MAX_LIVES

(* C22: in ask_position the number of "Option k" labels rendered in the   *)
(* prompt equals len(allowed_positions), the k-th option from the left    *)
(* is labelled k and has as many years of the sorted timeline before it   *)
(* as allowed_positions[k-1] says, so the accepted range                  *)
(* 1..len(allowed_positions) is the range of labels shown.                *)
OptionPlaces == { p \in 1..Len(tokens) : tokens[p].kind = "option" }

YearsBefore(p) ==
    Cardinality({ q \in 1..(p - 1) : tokens[q].kind = "year" })

OptionsUpTo(p) == Cardinality({ q \in OptionPlaces : q <= p })

C22_PromptMatchesAllowedPositions ==
    pc \in { "fn_offered", "ask" } =>
        /\ Cardinality(OptionPlaces) = Len(allowed_positions)
        /\ { tokens[p].n : p \in OptionPlaces } = 1..Len(allowed_positions)
        /\ \A p \in OptionPlaces :
              /\ tokens[p].n = OptionsUpTo(p)
              /\ YearsBefore(p) = allowed_positions[OptionsUpTo(p)]

C22_Witness ==
    /\ pc = "fn_offered"
    /\ timeline = << Song(3, 1995), Song(1, 1990), Song(2, 1991) >>
    /\ allowed_positions = << 0, 2, 3 >>
    /\ Len(tokens) = 11
    /\ tokens[5] = YearToken(1991)
    /\ tokens[7] = OptionToken(2)

====
